---- MODULE Spec2Model ----
(***************************************************************************)
(* A model of bridgebase's adapter (src/adapter.py): the SQL-subset        *)
(* translator of DBActor (_parse_tokens, _execute_select_mongo,            *)
(* _build_projection, _parse_where_clause), the two executors              *)
(* (run_mongo_select, run_postgres_select) and the /speedtest handler that *)
(* dispatches both to the single DBActor and gathers the two futures.      *)
(*                                                                         *)
(* Python strings are sequences of one-character strings, so that upper(), *)
(* strip(), split(), replace(), int() and float() are computed, character  *)
(* by character, the way the interpreter computes them.                    *)
(***************************************************************************)
EXTENDS Integers, Sequences, FiniteSets, TLC

\* ------------------------------------------------------------------------
\* Bounds of the model
\* ------------------------------------------------------------------------
MaxTokens == 4
MaxN == 2
NumDocs == 4
MaxTail == 4
MaxConds == 2
MaxValLen == 3
MaxFieldLen == 3
MaxBenchTokens == 2
MaxTime == 3

\* ------------------------------------------------------------------------
\* Python str operations
\* ------------------------------------------------------------------------
LowerChars == <<"a","b","c","d","e","f","g","h","i","j","k","l","m",
                "n","o","p","q","r","s","t","u","v","w","x","y","z">>
UpperChars == <<"A","B","C","D","E","F","G","H","I","J","K","L","M",
                "N","O","P","Q","R","S","T","U","V","W","X","Y","Z">>
DigitChars == <<"0","1","2","3","4","5","6","7","8","9">>

\* str.strip() and str.split() with no argument act on whitespace.
Whitespace == {" ", "\t", "\n"}

UpperChar(c) ==
    IF \E i \in 1..Len(LowerChars) : LowerChars[i] = c
    THEN UpperChars[CHOOSE i \in 1..Len(LowerChars) : LowerChars[i] = c]
    ELSE c

\* str.upper()
Upper(s) == [i \in 1..Len(s) |-> UpperChar(s[i])]

RECURSIVE LStrip(_, _)
LStrip(s, chars) ==
    IF s # <<>> /\ Head(s) \in chars THEN LStrip(Tail(s), chars) ELSE s

RECURSIVE RStrip(_, _)
RStrip(s, chars) ==
    IF s # <<>> /\ s[Len(s)] \in chars
    THEN RStrip(SubSeq(s, 1, Len(s) - 1), chars)
    ELSE s

\* str.strip(chars): every leading and every trailing character of chars.
Strip(s, chars) == RStrip(LStrip(s, chars), chars)

\* str.replace(c, "")
RemoveChar(s, c) == SelectSeq(s, LAMBDA x : x # c)

\* The sep occurs in s at position i (1-based).
OccursAt(s, sep, i) ==
    /\ i + Len(sep) - 1 <= Len(s)
    /\ \A k \in 1..Len(sep) : s[i + k - 1] = sep[k]

\* str.split(sep): leftmost, non-overlapping occurrences; empty parts kept.
RECURSIVE Split(_, _)
Split(s, sep) ==
    IF \E i \in 1..Len(s) : OccursAt(s, sep, i)
    THEN LET i == CHOOSE j \in 1..Len(s) :
                    /\ OccursAt(s, sep, j)
                    /\ \A k \in 1..(j - 1) : ~OccursAt(s, sep, k)
         IN  <<SubSeq(s, 1, i - 1)>>
                 \o Split(SubSeq(s, i + Len(sep), Len(s)), sep)
    ELSE <<s>>

\* The length of the longest prefix of s with no whitespace.
RECURSIVE WordLen(_)
WordLen(s) ==
    IF s = <<>> \/ Head(s) \in Whitespace THEN 0 ELSE 1 + WordLen(Tail(s))

\* str.split(): runs of whitespace separate; no empty parts.
RECURSIVE SplitWS(_)
SplitWS(s) ==
    LET r == LStrip(s, Whitespace)
    IN  IF r = <<>> THEN <<>>
        ELSE <<SubSeq(r, 1, WordLen(r))>>
                 \o SplitWS(SubSeq(r, WordLen(r) + 1, Len(r)))

\* " ".join(parts)
RECURSIVE JoinSpace(_)
JoinSpace(parts) ==
    IF parts = <<>> THEN <<>>
    ELSE IF Len(parts) = 1 THEN parts[1]
    ELSE parts[1] \o <<" ">> \o JoinSpace(Tail(parts))

IsDigit(c) == \E i \in 1..Len(DigitChars) : DigitChars[i] = c
DigitVal(c) == (CHOOSE i \in 1..Len(DigitChars) : DigitChars[i] = c) - 1

RECURSIVE DigitsVal(_)
DigitsVal(s) ==
    IF s = <<>> THEN 0
    ELSE 10 * DigitsVal(SubSeq(s, 1, Len(s) - 1)) + DigitVal(s[Len(s)])

RECURSIVE Pow10(_)
Pow10(k) == IF k = 0 THEN 1 ELSE 10 * Pow10(k - 1)

\* The text without its sign, and the sign.
Unsigned(s) == IF s # <<>> /\ Head(s) \in {"+", "-"} THEN Tail(s) ELSE s
SignOf(s) == IF s # <<>> /\ Head(s) = "-" THEN -1 ELSE 1

\* int(text): surrounding whitespace ignored, an optional sign, then one or
\* more decimal digits; anything else is a ValueError (ok = FALSE).
IntParse(text) ==
    LET s == Strip(text, Whitespace)
        u == Unsigned(s)
    IN  IF u # <<>> /\ \A i \in 1..Len(u) : IsDigit(u[i])
        THEN [ok |-> TRUE, num |-> SignOf(s) * DigitsVal(u)]
        ELSE [ok |-> FALSE, num |-> 0]

\* A fraction num/den with den a power of ten, trailing zeros dropped, so
\* that equal floats are equal values.
RECURSIVE Normalise(_, _)
Normalise(num, den) ==
    IF den > 1 /\ num % 10 = 0 THEN Normalise(num \div 10, den \div 10)
    ELSE [num |-> num, den |-> den]

\* float(text) for a text that holds a ".": surrounding whitespace ignored,
\* an optional sign, digits with exactly one point and at least one digit.
\* (Exponents, "inf" and "nan" need letters that no value of the model has.)
FloatParse(text) ==
    LET s == Strip(text, Whitespace)
        u == Unsigned(s)
        parts == Split(u, <<".">>)
    IN  IF /\ Len(parts) = 2
           /\ Len(parts[1]) + Len(parts[2]) > 0
           /\ \A i \in 1..Len(parts[1]) : IsDigit(parts[1][i])
           /\ \A i \in 1..Len(parts[2]) : IsDigit(parts[2][i])
        THEN LET n == Normalise(SignOf(s) * DigitsVal(parts[1] \o parts[2]),
                                Pow10(Len(parts[2])))
             IN  [ok |-> TRUE, num |-> n.num, den |-> n.den]
        ELSE [ok |-> FALSE, num |-> 0, den |-> 1]

\* ------------------------------------------------------------------------
\* Python values: int, float, str, and None
\* ------------------------------------------------------------------------
IntVal(n) == [kind |-> "int", num |-> n, den |-> 1, str |-> <<>>]
FloatVal(n, d) == [kind |-> "float", num |-> n, den |-> d, str |-> <<>>]
StrVal(s) == [kind |-> "str", num |-> 0, den |-> 1, str |-> s]

None == [set |-> FALSE, val |-> 0]
Some(v) == [set |-> TRUE, val |-> v]

\* dict: a function from keys to values.
EmptyDict == [k \in {} |-> 0]
DictSet(d, key, v) ==
    [k \in (DOMAIN d) \cup {key} |-> IF k = key THEN v ELSE d[k]]

\* ------------------------------------------------------------------------
\* Tokens (sqlparse): the text of a lexeme and whether it is whitespace
\* ------------------------------------------------------------------------
Tok(text) == [value |-> text, is_whitespace |-> FALSE]
WsTok == [value |-> <<" ">>, is_whitespace |-> TRUE]

kwSELECT == <<"S","E","L","E","C","T">>
kwFROM == <<"F","R","O","M">>
kwWHERE == <<"W","H","E","R","E">>
kwLIMIT == <<"L","I","M","I","T">>
kwOFFSET == <<"O","F","F","S","E","T">>
kwAND == <<"A","N","D">>
idField == <<"_","i","d">>

\* The errors the translator raises.  The three ValueErrors are told apart
\* by their message; IndexError is the uncaught tokens[select_idx + 1].
ErrNone == "none"
ErrEmptyQuery == "EmptyQuery"
ErrMissingFrom == "MissingFromClause"
ErrNoCollection == "NoCollectionSpecified"
ErrIndex == "IndexError"

\* DBActor._parse_tokens.  sql_query is modelled by what sqlparse.parse
\* makes of it: a sequence of statements, each a sequence of tokens (the
\* empty sequence for a text that parses to nothing).
ParseTokens(statements) ==
    IF statements = <<>>
    THEN [err |-> ErrEmptyQuery, tokens |-> <<>>]
    ELSE LET tokens == SelectSeq(statements[1], LAMBDA t : ~t.is_whitespace)
         IN  IF tokens = <<>>
             THEN [err |-> ErrEmptyQuery, tokens |-> <<>>]
             ELSE [err |-> ErrNone, tokens |-> tokens]

\* int(tokens[i+1].value) under try/except (IndexError, ValueError): the
\* bound that follows the keyword at 0-based index i, or the bound as it was.
BoundAfter(tokens, i, old) ==
    IF i + 2 > Len(tokens) THEN old
    ELSE LET r == IntParse(tokens[i + 2].value)
         IN  IF r.ok THEN Some(r.num) ELSE old

\* One iteration of the scan of _execute_select_mongo, on the token at
\* 0-based index i (tokens[i + 1] here).
ScanStep(tokens, i, st) ==
    LET val == Upper(tokens[i + 1].value)
    IN  IF val = kwSELECT THEN [st EXCEPT !.select_idx = Some(i)]
        ELSE IF val = kwFROM THEN [st EXCEPT !.from_idx = Some(i)]
        ELSE IF val = kwWHERE THEN [st EXCEPT !.where_idx = Some(i)]
        ELSE IF val = kwLIMIT
             THEN [st EXCEPT !.limit_val = BoundAfter(tokens, i, @)]
        ELSE IF val = kwOFFSET
             THEN [st EXCEPT !.offset_val = BoundAfter(tokens, i, @)]
        ELSE st

RECURSIVE ScanFrom(_, _, _)
ScanFrom(tokens, i, st) ==
    IF i >= Len(tokens) THEN st
    ELSE ScanFrom(tokens, i + 1, ScanStep(tokens, i, st))

\* The clause locator: the for loop of _execute_select_mongo.
LocateClauses(tokens) ==
    ScanFrom(tokens, 0, [select_idx |-> None, from_idx |-> None,
                         where_idx |-> None, limit_val |-> None,
                         offset_val |-> None])

\* DBActor._build_projection.  fields_token is None or Some(token).
BuildProjection(fields_token) ==
    IF ~fields_token.set \/ Strip(fields_token.val.value, Whitespace) = <<"*">>
    THEN DictSet(EmptyDict, idField, 0)
    ELSE LET raw_cols == RemoveChar(RemoveChar(fields_token.val.value, "("), ")")
             split == Split(raw_cols, <<",">>)
             parts == [i \in 1..Len(split) |-> Strip(split[i], Whitespace)]
             kept == SelectSeq(parts, LAMBDA p : Upper(p) # kwSELECT)
             proj == [col \in {kept[i] : i \in 1..Len(kept)} |-> 1]
         IN  DictSet(proj, idField, 0)

\* val.strip("'").strip('"')
StripQuotes(val) == Strip(Strip(val, {"'"}), {"\""})

\* The numeric cast of _parse_where_clause: float() when the text holds a
\* ".", int() otherwise; the text itself when the cast raises ValueError.
CastValue(val) ==
    IF \E i \in 1..Len(val) : val[i] = "."
    THEN LET f == FloatParse(val)
         IN  IF f.ok THEN FloatVal(f.num, f.den) ELSE StrVal(val)
    ELSE LET n == IntParse(val)
         IN  IF n.ok THEN IntVal(n.num) ELSE StrVal(val)

\* An entry of the filter document: a scalar, {"$gt": v} or {"$lt": v}.
Entry(op, v) == [op |-> op, val |-> v]

\* ApplyCondition with the first condition on a field kept: a later
\* condition on the same field does not overwrite it.
ApplyConditionKeepFirst(filter_doc, cond) ==
    LET parts == SplitWS(cond)
    IN  IF Len(parts) < 3 \/ parts[1] \in DOMAIN filter_doc THEN filter_doc
        ELSE LET val == StripQuotes(JoinSpace(SubSeq(parts, 3, Len(parts))))
                 op == IF parts[2] = <<"=">> THEN "eq"
                       ELSE IF parts[2] = <<">">> THEN "gt" ELSE "lt"
             IN  IF parts[2] \in {<<"=">>, <<">">>, <<"<">>}
                 THEN DictSet(filter_doc, parts[1], Entry(op, CastValue(val)))
                 ELSE filter_doc

\* The body of the loop of _parse_where_clause for one condition string.
ApplyCondition(filter_doc, cond) ==
    LET parts == SplitWS(cond)
    IN  IF Len(parts) < 3 THEN filter_doc
        ELSE LET field == parts[1]
                 op == parts[2]
                 val == StripQuotes(JoinSpace(SubSeq(parts, 3, Len(parts))))
                 final_val == CastValue(val)
             IN  IF op = <<"=">>
                 THEN DictSet(filter_doc, field, Entry("eq", final_val))
                 ELSE IF op = <<">">>
                 THEN DictSet(filter_doc, field, Entry("gt", final_val))
                 ELSE IF op = <<"<">>
                 THEN DictSet(filter_doc, field, Entry("lt", final_val))
                 ELSE filter_doc

RECURSIVE ApplyConditions(_, _)
ApplyConditions(filter_doc, conditions) ==
    IF conditions = <<>> THEN filter_doc
    ELSE ApplyConditions(ApplyCondition(filter_doc, Head(conditions)),
                         Tail(conditions))

\* DBActor._parse_where_clause
ParseWhereClause(tokens) ==
    LET where_str == JoinSpace([i \in 1..Len(tokens) |-> tokens[i].value])
        split == Split(where_str, kwAND)
        conditions == [i \in 1..Len(split) |-> Strip(split[i], Whitespace)]
    IN  ApplyConditions(EmptyDict, conditions)

\* What _execute_select_mongo asks of the store: mongo_db[collection]
\* .find(filter, projection), then skip and limit when set.
NoRequest ==
    [collection |-> <<>>, filter |-> EmptyDict, projection |-> EmptyDict,
     skip |-> None, limit |-> None]

\* TranslateSelect without the check of from_idx: a query with no FROM goes
\* to the store, against a collection with no name.
TranslateSelectFromUnchecked(tokens) ==
    LET st == LocateClauses(tokens)
    IN  [err |-> ErrNone,
         request |-> [NoRequest EXCEPT !.skip = st.offset_val,
                                       !.limit = st.limit_val]]

\* _execute_select_mongo up to the find: the error raised, or the request.
TranslateSelect(tokens) ==
    LET st == LocateClauses(tokens)
    IN  IF ~st.from_idx.set
        THEN [err |-> ErrMissingFrom, request |-> NoRequest]
        ELSE IF st.select_idx.set /\ st.select_idx.val + 2 > Len(tokens)
        THEN [err |-> ErrIndex, request |-> NoRequest]
        ELSE IF st.from_idx.val + 2 > Len(tokens)
        THEN [err |-> ErrNoCollection, request |-> NoRequest]
        ELSE LET fields_token ==
                     IF st.select_idx.set
                     THEN Some(tokens[st.select_idx.val + 2]) ELSE None
                 table_token == tokens[st.from_idx.val + 2]
                 filter_doc ==
                     IF st.where_idx.set
                     THEN ParseWhereClause(
                              SubSeq(tokens, st.where_idx.val + 2, Len(tokens)))
                     ELSE EmptyDict
             IN  [err |-> ErrNone,
                  request |->
                      [collection |-> Strip(table_token.value, Whitespace),
                       filter |-> filter_doc,
                       projection |-> BuildProjection(fields_token),
                       skip |-> st.offset_val,
                       limit |-> st.limit_val]]

\* ------------------------------------------------------------------------
\* The document store (pymongo) behind mongo_db[collection].find(...)
\* ------------------------------------------------------------------------
usersName == <<"u","s","e","r","s">>
nameField == <<"n","a","m","e">>
ageField == <<"a","g","e">>

\* The seeded collection of load_data.py: NumDocs records {name, age}, each
\* with the identity field the store assigns, in insertion order.
SeedDoc(i) ==
    DictSet(DictSet(DictSet(EmptyDict, idField, IntVal(i)),
                    nameField, StrVal(IF i % 2 = 0 THEN <<"x">> ELSE <<"y">>)),
            ageField, IntVal(i))
Users == [i \in 1..NumDocs |-> SeedDoc(i)]

\* mongo_db[name]: a collection never written to is empty.
Collection(name) == IF name = usersName THEN Users ELSE <<>>

IsNumber(v) == v.kind \in {"int", "float"}

\* The order of characters, for the comparison of strings.
CharOrder == <<" ", "\"", "'", "(", ")", "*", ",", ".">> \o DigitChars
                 \o <<"<", "=", ">">> \o UpperChars \o <<"_">> \o LowerChars
CharRank(c) == CHOOSE i \in 1..Len(CharOrder) : CharOrder[i] = c

RECURSIVE StrLess(_, _)
StrLess(a, b) ==
    IF b = <<>> THEN FALSE
    ELSE IF a = <<>> THEN TRUE
    ELSE IF Head(a) = Head(b) THEN StrLess(Tail(a), Tail(b))
    ELSE CharRank(Head(a)) < CharRank(Head(b))

\* a < b for two values of one type bracket (numbers, or strings); values
\* of different brackets never satisfy $gt or $lt.
ValueLess(a, b) ==
    IF IsNumber(a) /\ IsNumber(b) THEN a.num * b.den < b.num * a.den
    ELSE IF a.kind = "str" /\ b.kind = "str" THEN StrLess(a.str, b.str)
    ELSE FALSE

ValueEqual(a, b) ==
    IF IsNumber(a) /\ IsNumber(b) THEN a.num * b.den = b.num * a.den
    ELSE a = b

\* A document matches a filter when every entry holds of its field.
Matches(doc, filter) ==
    \A f \in DOMAIN filter :
        /\ f \in DOMAIN doc
        /\ IF filter[f].op = "eq" THEN ValueEqual(doc[f], filter[f].val)
           ELSE IF filter[f].op = "gt" THEN ValueLess(filter[f].val, doc[f])
           ELSE ValueLess(doc[f], filter[f].val)

\* The fields a projection keeps: the named inclusions, or every field when
\* none is named; the identity field is dropped by {"_id": 0}.
Project(doc, projection) ==
    LET named == {k \in DOMAIN projection : projection[k] = 1}
        keep == IF named = {} THEN (DOMAIN doc) \ {idField}
                ELSE named \cap (DOMAIN doc)
    IN  [k \in keep |-> doc[k]]

\* find(filter, projection): the matching documents, projected, in order.
Find(name, filter, projection) ==
    LET found == SelectSeq(Collection(name), LAMBDA d : Matches(d, filter))
    IN  [i \in 1..Len(found) |-> Project(found[i], projection)]

\* cursor.skip(n)
Skip(rows, n) == SubSeq(rows, n + 1, Len(rows))

\* cursor.limit(n): pymongo treats a limit of 0 as no limit.
Limit(rows, n) ==
    IF n = 0 \/ n >= Len(rows) THEN rows ELSE SubSeq(rows, 1, n)

\* Lines 137-143 of _execute_select_mongo: find, skip when offset_val is
\* set, limit when limit_val is set, and the cursor read to the end.
CursorRows(request) ==
    LET cursor == Find(request.collection, request.filter, request.projection)
        skipped == IF request.skip.set THEN Skip(cursor, request.skip.val)
                   ELSE cursor
    IN  IF request.limit.set THEN Limit(skipped, request.limit.val)
        ELSE skipped

\* DBActor.run_mongo_select against a store that answers: the error raised,
\* or the request made of the store and the rows it returned.
RunMongoSelect(statements) ==
    LET parsed == ParseTokens(statements)
    IN  IF parsed.err # ErrNone
        THEN [err |-> parsed.err, request |-> NoRequest, rows |-> <<>>]
        ELSE LET t == TranslateSelect(parsed.tokens)
             IN  IF t.err # ErrNone
                 THEN [err |-> t.err, request |-> NoRequest, rows |-> <<>>]
                 ELSE [err |-> ErrNone, request |-> t.request,
                       rows |-> CursorRows(t.request)]

\* ------------------------------------------------------------------------
\* State
\* ------------------------------------------------------------------------
VARIABLES
    arg,            \* the argument a translator function is called with
    ret,            \* what the call returned
    called,         \* the function that has been called, or "none"
    pc,             \* where the /speedtest handler stands
    sql,            \* the handler's sql_query
    mailbox,        \* the DBActor's queue of submitted method calls
    running,        \* the method the DBActor is executing, or "none"
    task_start,     \* start, of the method being executed
    pending,        \* the request the store is working on
    mongo_future,   \* the outcome of run_mongo_select.remote
    pg_future,      \* the outcome of run_postgres_select.remote
    now,            \* time.perf_counter()
    start_all,      \* the handler's start_all
    response,       \* what the handler answered
    find_calls,     \* the times the document store's find was invoked
    execute_calls,  \* the times the relational store's execute was invoked
    first_error     \* the executor that failed first, and its error

funVars == <<arg, ret, called>>
benchVars == <<pc, sql, mailbox, running, task_start, pending, mongo_future,
               pg_future, now, start_all, response, find_calls,
               execute_calls, first_error>>
vars == <<arg, ret, called, pc, sql, mailbox, running, task_start, pending,
          mongo_future, pg_future, now, start_all, response, find_calls,
          execute_calls, first_error>>

\* Sequences over S of length lo..hi.
SeqsOf(S, lo, hi) == UNION {[1..n -> S] : n \in lo..hi}

NoFuture == [state |-> "none", err |-> ErrNone, count |-> 0, elapsed |-> 0]
NoResponse ==
    [kind |-> "none", err |-> ErrNone, source |-> "none", total |-> 0,
     mongo_time |-> 0, mongo_count |-> 0, pg_time |-> 0, pg_count |-> 0]
NoError == [source |-> "none", err |-> ErrNone]

\* The module-level state of adapter.py once db_actor is created.
BenchInit ==
    /\ pc = "idle"
    /\ sql = <<>>
    /\ mailbox = <<>>
    /\ running = "none"
    /\ task_start = 0
    /\ pending = NoRequest
    /\ mongo_future = NoFuture
    /\ pg_future = NoFuture
    /\ now = 0
    /\ start_all = 0
    /\ response = NoResponse
    /\ find_calls = 0
    /\ execute_calls = 0
    /\ first_error = NoError

FunInit ==
    /\ arg = <<>>
    /\ ret = <<>>
    /\ called = "none"

\* ------------------------------------------------------------------------
\* The translator functions, called on their own
\* ------------------------------------------------------------------------
CallRunMongoSelect ==
    /\ called = "none"
    /\ called' = "run_mongo_select"
    /\ ret' = RunMongoSelect(arg)
    /\ UNCHANGED <<arg, benchVars>>

CallParseWhereClause ==
    /\ called = "none"
    /\ called' = "_parse_where_clause"
    /\ ret' = ParseWhereClause(arg)
    /\ UNCHANGED <<arg, benchVars>>

CallBuildProjection ==
    /\ called = "none"
    /\ called' = "_build_projection"
    /\ ret' = BuildProjection(arg)
    /\ UNCHANGED <<arg, benchVars>>

\* --- the clause locator, on every short token sequence -------------------
starText == <<"*">>
LocateVocab ==
    {Tok(kwSELECT), Tok(kwFROM), Tok(<<"f","r","o","m">>), Tok(kwWHERE),
     Tok(usersName), Tok(<<"x">>), Tok(starText), WsTok}
LocateInputs ==
    {<<>>} \cup {<<s>> : s \in SeqsOf(LocateVocab, 1, MaxTokens)}

InitLocate ==
    /\ arg \in LocateInputs
    /\ ret = <<>>
    /\ called = "none"
    /\ BenchInit
NextLocate == CallRunMongoSelect
SpecLocate == InitLocate /\ [][NextLocate]_vars

\* The non-whitespace tokens of a statement, and the places of a keyword.
NonWs(statement) == SelectSeq(statement, LAMBDA t : ~t.is_whitespace)
IsKeyword(t, kw) == Upper(t.value) = kw
HasKeyword(tokens, kw) == \E i \in 1..Len(tokens) : IsKeyword(tokens[i], kw)
FirstIndex(tokens, kw) ==
    CHOOSE i \in 1..Len(tokens) :
        /\ IsKeyword(tokens[i], kw)
        /\ \A j \in 1..(i - 1) : ~IsKeyword(tokens[j], kw)

\* C5: every non-whitespace token sequence either translates or fails with
\* EmptyQuery or MissingFromClause, nothing else; and a sequence that holds
\* FROM never fails, wherever SELECT and FROM stand (the last token included).
C5_OnlyEmptyQueryOrMissingFrom ==
    called = "run_mongo_select" =>
        /\ ret.err \in {ErrNone, ErrEmptyQuery, ErrMissingFrom}
        /\ (arg # <<>> /\ HasKeyword(NonWs(arg[1]), kwFROM)) => ret.err = ErrNone

\* C6: the field-list token, the collection token and the WHERE span are
\* those that follow the FIRST occurrence of SELECT, FROM and WHERE.
C6_FirstOccurrenceWins ==
    (called = "run_mongo_select" /\ ret.err = ErrNone) =>
        LET toks == NonWs(arg[1])
            f == FirstIndex(toks, kwFROM)
        IN  /\ f < Len(toks) =>
                   ret.request.collection = Strip(toks[f + 1].value, Whitespace)
            /\ HasKeyword(toks, kwSELECT) =>
                   LET sel == FirstIndex(toks, kwSELECT)
                   IN  sel < Len(toks) =>
                           ret.request.projection
                               = BuildProjection(Some(toks[sel + 1]))
            /\ HasKeyword(toks, kwWHERE) =>
                   LET w == FirstIndex(toks, kwWHERE)
                   IN  ret.request.filter
                           = ParseWhereClause(SubSeq(toks, w + 1, Len(toks)))

\* --- pagination: SELECT * FROM users [WHERE age > 1] and a tail ----------
NumTok(n) == Tok(<<DigitChars[n + 1]>>)
TailVocab ==
    {Tok(kwLIMIT), Tok(kwOFFSET), Tok(<<"x">>)} \cup {NumTok(n) : n \in 0..MaxN}
BaseQuery == <<Tok(kwSELECT), Tok(starText), Tok(kwFROM), Tok(usersName)>>
WhereOptions ==
    {<<>>, <<Tok(kwWHERE), Tok(ageField), Tok(<<">">>), Tok(<<"1">>)>>}
PaginateInputs ==
    {<<BaseQuery \o w \o t>> :
        w \in WhereOptions, t \in SeqsOf(TailVocab, 0, MaxTail)}

InitPaginate ==
    /\ arg \in PaginateInputs
    /\ ret = <<>>
    /\ called = "none"
    /\ BenchInit
NextPaginate == CallRunMongoSelect
SpecPaginate == InitPaginate /\ [][NextPaginate]_vars

OptBounds == {None} \cup {Some(n) : n \in 0..MaxN}
LimitPart(lim) == IF lim.set THEN <<Tok(kwLIMIT), NumTok(lim.val)>> ELSE <<>>
OffsetPart(off) == IF off.set THEN <<Tok(kwOFFSET), NumTok(off.val)>> ELSE <<>>
PageQuery(w, lim, off, limitFirst) ==
    BaseQuery \o w \o (IF limitFirst THEN LimitPart(lim) \o OffsetPart(off)
                       ELSE OffsetPart(off) \o LimitPart(lim))

\* The records of users that match the query's own WHERE conditions.
MatchingRecords(w) ==
    Find(usersName, IF w = <<>> THEN EmptyDict ELSE ParseWhereClause(Tail(w)),
         DictSet(EmptyDict, idField, 0))

\* The records at positions m .. m+n-1 (0-based), an unset bound not applied.
PageOf(rows, off, lim) ==
    LET m == IF off.set THEN off.val ELSE 0
        rest == IF m >= Len(rows) THEN 0 ELSE Len(rows) - m
        n == IF lim.set /\ lim.val < rest THEN lim.val ELSE rest
    IN  [i \in 1..n |-> rows[m + i]]

\* C8: with LIMIT n and OFFSET m, in either order in the text, the rows
\* returned are the matching records at positions m .. m+n-1: the first m
\* skipped, then at most n; an unset bound is not applied.
C8_SkipThenLimit ==
    called = "run_mongo_select" =>
        \A w \in WhereOptions, lim \in OptBounds, off \in OptBounds,
           limitFirst \in BOOLEAN :
            arg = <<PageQuery(w, lim, off, limitFirst)>> =>
                /\ ret.err = ErrNone
                /\ ret.rows = PageOf(MatchingRecords(w), off, lim)

\* --- the filter translator, on conditions joined by AND ------------------
WhereFields == {ageField, nameField}
WhereOps == {<<"=">>, <<">">>, <<"<">>, <<"!","=">>}
WhereValues ==
    {<<"3","0">>, <<"'","x","'">>, <<"'","A","N","D","Y","'">>,
     <<"'","a"," ","b","'">>}
\* A condition is its words: field op value, or fewer.
Conditions ==
    {<<f, o, v>> : f \in WhereFields, o \in WhereOps, v \in WhereValues}
        \cup {<<f, o>> : f \in WhereFields, o \in WhereOps}
        \cup {<<f>> : f \in WhereFields}

RECURSIVE WhereTokens(_)
WhereTokens(conds) ==
    IF conds = <<>> THEN <<>>
    ELSE LET first == [i \in 1..Len(Head(conds)) |-> Tok(Head(conds)[i])]
         IN  IF Len(conds) = 1 THEN first
             ELSE first \o <<Tok(kwAND)>> \o WhereTokens(Tail(conds))

WhereInputs == {WhereTokens(cs) : cs \in SeqsOf(Conditions, 0, MaxConds)}

InitWhere ==
    /\ arg \in WhereInputs
    /\ ret = <<>>
    /\ called = "none"
    /\ BenchInit
NextWhere == CallParseWhereClause
SpecWhere == InitWhere /\ [][NextWhere]_vars

\* The conditions of a token span: the words between the AND tokens.
RECURSIVE CondsOf(_, _)
CondsOf(tokens, cur) ==
    IF tokens = <<>> THEN <<cur>>
    ELSE IF Head(tokens).value = kwAND
    THEN <<cur>> \o CondsOf(Tail(tokens), <<>>)
    ELSE CondsOf(Tail(tokens), Append(cur, Head(tokens).value))

OpName(o) == IF o = <<"=">> THEN "eq" ELSE IF o = <<">">> THEN "gt" ELSE "lt"

\* The filter the conditions stand for: the last condition on each field
\* with operator =, > or <; every other condition adds and changes nothing.
RECURSIVE FilterOf(_, _)
FilterOf(conds, d) ==
    IF conds = <<>> THEN d
    ELSE LET c == Head(conds)
         IN  FilterOf(Tail(conds),
                 IF Len(c) >= 3 /\ c[2] \in {<<"=">>, <<">">>, <<"<">>}
                 THEN DictSet(d, c[1],
                              Entry(OpName(c[2]), CastValue(StripQuotes(c[3]))))
                 ELSE d)

ContainsAnd(word) == \E i \in 1..Len(word) : OccursAt(word, kwAND, i)
NoAndInside(conds) ==
    \A i \in 1..Len(conds) : \A j \in 1..Len(conds[i]) : ~ContainsAnd(conds[i][j])

\* C7 as stated: for every span of conditions joined by AND the filter is
\* the last supported condition on each field, and nothing else.
C7_FilterOfEverySpan ==
    called = "_parse_where_clause" => ret = FilterOf(CondsOf(arg, <<>>), EmptyDict)

\* C7, amended: the same, for the spans none of whose fields, operators and
\* values holds the letters AND (the translator splits the flattened text on
\* every occurrence of AND, inside a word too).
C7_FilterOfSpanWithoutInnerAnd ==
    (called = "_parse_where_clause" /\ NoAndInside(CondsOf(arg, <<>>))) =>
        ret = FilterOf(CondsOf(arg, <<>>), EmptyDict)

\* The spec's example: age > 30 AND name = 'x'.
C7_Witness ==
    /\ called = "_parse_where_clause"
    /\ arg = WhereTokens(<< <<ageField, <<">">>, <<"3","0">>>>,
                            <<nameField, <<"=">>, <<"'","x","'">>>> >>)
    /\ ret = DictSet(DictSet(EmptyDict, ageField, Entry("gt", IntVal(30))),
                     nameField, Entry("eq", StrVal(<<"x">>)))

\* --- value coercion: field = value, for every short value text -----------
Quotes == {"'", "\""}
ValueAlphabet == {"'", "\"", "4", "2", ".", "a"}
ValueExamples ==
    {<<"'","4","2","'">>, <<"'","3",".","1","4","'">>,
     <<"'","a","b","c","'">>, <<"'","1",".","2",".","3","'">>}
CoerceInputs ==
    {<<Tok(ageField), Tok(<<"=">>), Tok(v)>> :
        v \in SeqsOf(ValueAlphabet, 1, MaxValLen) \cup ValueExamples}

InitCoerce ==
    /\ arg \in CoerceInputs
    /\ ret = <<>>
    /\ called = "none"
    /\ BenchInit
NextCoerce == CallParseWhereClause
SpecCoerce == InitCoerce /\ [][NextCoerce]_vars

AllDigits(s) == s # <<>> /\ \A i \in 1..Len(s) : IsDigit(s[i])

\* C10: at most one quote character is taken from the start of the value
\* and at most one from its end; what is left becomes an integer when it is
\* all decimal digits and stays the same string when it is no number.
C10_OneQuoteEachSide ==
    called = "_parse_where_clause" =>
        LET v == arg[3].value
            r == ret[ageField].val
        IN  \E a \in {0, 1}, b \in {0, 1} :
                /\ a + b <= Len(v)
                /\ a = 1 => v[1] \in Quotes
                /\ b = 1 => v[Len(v)] \in Quotes
                /\ LET left == SubSeq(v, 1 + a, Len(v) - b)
                   IN  /\ AllDigits(left) => r = IntVal(DigitsVal(left))
                       /\ (~IntParse(left).ok /\ ~FloatParse(left).ok)
                              => r = StrVal(left)

\* --- the projection builder, on every short field-list text --------------
ProjAlphabet == {"a", "b", ",", " ", "*", "("}
ProjExamples ==
    {<<"a",",","b">>, <<"(","a",",","b",")">>,
     <<"s","e","l","e","c","t",",","a">>}
ProjInputs ==
    {None} \cup {Some(Tok(t)) :
                    t \in SeqsOf(ProjAlphabet, 1, MaxFieldLen) \cup ProjExamples}

InitProj ==
    /\ arg \in ProjInputs
    /\ ret = <<>>
    /\ called = "none"
    /\ BenchInit
NextProj == CallBuildProjection
SpecProj == InitProj /\ [][NextProj]_vars

\* The non-empty, trimmed, comma-separated parts of a field-list text, its
\* parentheses removed and SELECT (in any case) left out.
NamedParts(text) ==
    LET split == Split(SelectSeq(text, LAMBDA c : c \notin {"(", ")"}), <<",">>)
        trimmed == {Strip(split[i], Whitespace) : i \in 1..Len(split)}
    IN  {p \in trimmed : p # <<>> /\ Upper(p) # kwSELECT}

\* C9: the projection always suppresses the identity field and includes
\* exactly the non-empty parts of the field list; no token, or *, includes
\* no field by name.
C9_ProjectionIncludesNonEmptyParts ==
    called = "_build_projection" =>
        /\ idField \in DOMAIN ret /\ ret[idField] = 0
        /\ \A k \in (DOMAIN ret) \ {idField} : ret[k] = 1
        /\ (DOMAIN ret) \ {idField}
               = IF ~arg.set \/ Strip(arg.val.value, Whitespace) = starText
                 THEN {}
                 ELSE NamedParts(arg.val.value)

\* ------------------------------------------------------------------------
\* The /speedtest handler and the DBActor
\*
\* db_actor is one DBActor, declared with a bare @ray.remote: it executes
\* the method calls submitted to it one at a time, in the order the handler
\* submitted them.  The handler submits both calls and then gathers the
\* mongo future before the postgres future.
\* ------------------------------------------------------------------------
ErrBackend == "BackendError"

BenchVocab == {Tok(kwSELECT), Tok(kwFROM), Tok(usersName), WsTok}
\* sql_query as sqlparse reads it; <<>> is the empty text.
BenchQueries ==
    {<<>>} \cup {<<s>> : s \in SeqsOf(BenchVocab, 1, MaxBenchTokens)}

Pending == [state |-> "pending", err |-> ErrNone, count |-> 0, elapsed |-> 0]
Failed(e) == [state |-> "error", err |-> e, count |-> 0, elapsed |-> 0]
Returned(n, t) == [state |-> "ok", err |-> ErrNone, count |-> n, elapsed |-> t]
Resolved(future) == future.state \in {"ok", "error"}

\* The ghost record of the executor that failed first.
NoteError(source, e) ==
    IF first_error.source = "none" THEN [source |-> source, err |-> e]
    ELSE first_error

\* The exception that ray.get re-raises in the handler.
Raised(source, e) ==
    [NoResponse EXCEPT !.kind = "error", !.err = e, !.source = source]

\* Time passes.
Tick ==
    /\ now < MaxTime
    /\ now' = now + 1
    /\ UNCHANGED <<funVars, pc, sql, mailbox, running, task_start, pending,
                   mongo_future, pg_future, start_all, response, find_calls,
                   execute_calls, first_error>>

\* speedtest(), lines 257-265: the 400 answer for an empty query, or
\* start_all and db_actor.run_mongo_select.remote(sql_query).
Speedtest ==
    /\ pc = "idle"
    /\ \E q \in BenchQueries :
        /\ sql' = q
        /\ IF q = <<>>
           THEN /\ response' = [NoResponse EXCEPT !.kind = "400"]
                /\ pc' = "done"
                /\ UNCHANGED <<start_all, mongo_future, mailbox>>
           ELSE /\ start_all' = now
                /\ mongo_future' = Pending
                /\ mailbox' = Append(mailbox, "mongo")
                /\ pc' = "submit_pg"
                /\ UNCHANGED response
    /\ UNCHANGED <<funVars, running, task_start, pending, pg_future, now,
                   find_calls, execute_calls, first_error>>

\* Line 266: db_actor.run_postgres_select.remote(sql_query).
SubmitPg ==
    /\ pc = "submit_pg"
    /\ pg_future' = Pending
    /\ mailbox' = Append(mailbox, "pg")
    /\ pc' = "get_mongo"
    /\ UNCHANGED <<funVars, sql, running, task_start, pending, mongo_future,
                   now, start_all, response, find_calls, execute_calls,
                   first_error>>

\* The actor takes up run_mongo_select: _parse_tokens, start, and
\* _execute_select_mongo up to the find it sends to the store.
ActorStartMongo ==
    /\ running = "none"
    /\ mailbox # <<>> /\ Head(mailbox) = "mongo"
    /\ mailbox' = Tail(mailbox)
    /\ LET parsed == ParseTokens(sql)
           t == TranslateSelect(parsed.tokens)
           e == IF parsed.err # ErrNone THEN parsed.err ELSE t.err
       IN  IF e # ErrNone
           THEN /\ mongo_future' = Failed(e)
                /\ first_error' = NoteError("mongo", e)
                /\ UNCHANGED <<running, task_start, pending, find_calls>>
           ELSE /\ task_start' = now
                /\ pending' = t.request
                /\ find_calls' = find_calls + 1
                /\ running' = "mongo"
                /\ UNCHANGED <<mongo_future, first_error>>
    /\ UNCHANGED <<funVars, pc, sql, pg_future, now, start_all, response,
                   execute_calls>>

\* The store answers the find: list(cursor) and elapsed, or the store's
\* error, which run_mongo_select lets through.
ActorFinishMongo ==
    /\ running = "mongo"
    /\ running' = "none"
    /\ pending' = NoRequest
    /\ \/ /\ mongo_future' = Returned(Len(CursorRows(pending)), now - task_start)
          /\ UNCHANGED first_error
       \/ /\ mongo_future' = Failed(ErrBackend)
          /\ first_error' = NoteError("mongo", ErrBackend)
    /\ UNCHANGED <<funVars, pc, sql, mailbox, task_start, pg_future, now,
                   start_all, response, find_calls, execute_calls>>

\* The actor takes up run_postgres_select: start and cursor.execute.
ActorStartPg ==
    /\ running = "none"
    /\ mailbox # <<>> /\ Head(mailbox) = "pg"
    /\ mailbox' = Tail(mailbox)
    /\ task_start' = now
    /\ execute_calls' = execute_calls + 1
    /\ running' = "pg"
    /\ UNCHANGED <<funVars, pc, sql, pending, mongo_future, pg_future, now,
                   start_all, response, find_calls, first_error>>

\* The relational store answers: fetchall() when there is a result set, no
\* rows when there is none, or the store's error.
ActorFinishPg ==
    /\ running = "pg"
    /\ running' = "none"
    /\ \/ /\ \E n \in 0..NumDocs :
                pg_future' = Returned(n, now - task_start)
          /\ UNCHANGED first_error
       \/ /\ pg_future' = Failed(ErrBackend)
          /\ first_error' = NoteError("pg", ErrBackend)
    /\ UNCHANGED <<funVars, pc, sql, mailbox, task_start, pending,
                   mongo_future, now, start_all, response, find_calls,
                   execute_calls>>

\* GetMongo with the task's error swallowed: the handler goes on to the
\* postgres future and answers with what it has.
GetMongoIgnoreError ==
    /\ pc = "get_mongo"
    /\ Resolved(mongo_future)
    /\ pc' = "get_pg"
    /\ UNCHANGED <<funVars, sql, mailbox, running, task_start, pending,
                   mongo_future, pg_future, now, start_all, response,
                   find_calls, execute_calls, first_error>>

\* Line 269: ray.get(mongo_future) returns, or raises the task's error.
GetMongo ==
    /\ pc = "get_mongo"
    /\ Resolved(mongo_future)
    /\ IF mongo_future.state = "error"
       THEN /\ response' = Raised("mongo", mongo_future.err)
            /\ pc' = "done"
       ELSE /\ pc' = "get_pg"
            /\ UNCHANGED response
    /\ UNCHANGED <<funVars, sql, mailbox, running, task_start, pending,
                   mongo_future, pg_future, now, start_all, find_calls,
                   execute_calls, first_error>>

\* GetPg without the wait: the handler answers as soon as the mongo future
\* is in, with whatever the postgres future holds.
GetPgNoWait ==
    /\ pc = "get_pg"
    /\ response' =
           [kind |-> "result", err |-> ErrNone, source |-> "none",
            total |-> now - start_all,
            mongo_time |-> mongo_future.elapsed,
            mongo_count |-> mongo_future.count,
            pg_time |-> pg_future.elapsed,
            pg_count |-> pg_future.count]
    /\ pc' = "done"
    /\ UNCHANGED <<funVars, sql, mailbox, running, task_start, pending,
                   mongo_future, pg_future, now, start_all, find_calls,
                   execute_calls, first_error>>

\* Lines 270-280: ray.get(pg_future), total_time and the JSON answer.
GetPg ==
    /\ pc = "get_pg"
    /\ Resolved(pg_future)
    /\ IF pg_future.state = "error"
       THEN response' = Raised("pg", pg_future.err)
       ELSE response' =
                [kind |-> "result", err |-> ErrNone, source |-> "none",
                 total |-> now - start_all,
                 mongo_time |-> mongo_future.elapsed,
                 mongo_count |-> mongo_future.count,
                 pg_time |-> pg_future.elapsed,
                 pg_count |-> pg_future.count]
    /\ pc' = "done"
    /\ UNCHANGED <<funVars, sql, mailbox, running, task_start, pending,
                   mongo_future, pg_future, now, start_all, find_calls,
                   execute_calls, first_error>>

Init == FunInit /\ BenchInit

Next ==
    \/ Tick
    \/ Speedtest
    \/ SubmitPg
    \/ ActorStartMongo
    \/ ActorFinishMongo
    \/ ActorStartPg
    \/ ActorFinishPg
    \/ GetMongo
    \/ GetPg

Spec == Init /\ [][Next]_vars

\* ------------------------------------------------------------------------
\* The benchmark request
\* ------------------------------------------------------------------------
Answered == response.kind # "none"

\* C1: the two executions overlap, so that with both backends taking time
\* total_parallel_time is less than the sum of the two elapsed times.
C1_TotalLessThanSum ==
    (response.kind = "result" /\ response.mongo_time > 0 /\ response.pg_time > 0)
        => response.total < response.mongo_time + response.pg_time

\* C2: when either executor fails the request fails as a whole: no result
\* is answered, and the error that reaches the caller is that of the
\* executor that failed first.
C2_FailsAsAWholeWithFirstError ==
    /\ response.kind = "result" =>
           /\ mongo_future.state = "ok"
           /\ pg_future.state = "ok"
           /\ first_error = NoError
    /\ (Answered /\ (mongo_future.state = "error" \/ pg_future.state = "error"))
           => response.kind = "error"
    /\ response.kind = "error" =>
           /\ response.source = first_error.source
           /\ response.err = first_error.err

\* The relational store raised after the document store had answered.
C2_Witness ==
    /\ response.kind = "error"
    /\ response.source = "pg"
    /\ mongo_future.state = "ok"
    /\ pg_future.state = "error"

\* The query has tokens, none of them FROM.
NoFromQuery ==
    /\ pc # "idle"
    /\ sql # <<>>
    /\ NonWs(sql[1]) # <<>>
    /\ ~HasKeyword(NonWs(sql[1]), kwFROM)

\* C3 as stated: a query with no FROM fails with MissingFromClause and
\* neither the document store's find nor the relational store's execute is
\* invoked for it.
C3_NoStoreContacted ==
    NoFromQuery =>
        /\ find_calls = 0
        /\ execute_calls = 0
        /\ Answered => (response.kind = "error" /\ response.err = ErrMissingFrom)

\* C3, amended: a query with no FROM fails with MissingFromClause and the
\* document store's find is never invoked for it (the relational store's
\* execute is: both calls are submitted before either outcome is read).
C3_DocumentStoreNotContacted ==
    NoFromQuery =>
        /\ find_calls = 0
        /\ Resolved(mongo_future) => mongo_future = Failed(ErrMissingFrom)
        /\ Answered => response = Raised("mongo", ErrMissingFrom)

\* The request failed with MissingFromClause and the relational store was
\* asked all the same.
C3_Witness ==
    /\ NoFromQuery
    /\ response = Raised("mongo", ErrMissingFrom)
    /\ find_calls = 0
    /\ execute_calls = 1

\* C4: a result is answered only once both executions have completed, and
\* its total is at least each of the two elapsed times.
C4_ResultAfterBothAndTotalAtLeastMax ==
    response.kind = "result" =>
        /\ Resolved(mongo_future) /\ Resolved(pg_future)
        /\ running = "none" /\ mailbox = <<>>
        /\ response.mongo_time = mongo_future.elapsed
        /\ response.pg_time = pg_future.elapsed
        /\ response.total >= response.mongo_time
        /\ response.total >= response.pg_time

\* A result in which both backends took time, the document store longer.
C4_Witness ==
    /\ response.kind = "result"
    /\ response.pg_time > 0
    /\ response.mongo_time > response.pg_time

====
